---- MODULE Spec2Model ----
(***************************************************************************)
(* Model of main.py: a crawler driver that asks an extraction collaborator *)
(* for a JSON payload per website and appends the extracted records to the *)
(* SQLite table convocatorias.                                             *)
(*                                                                         *)
(* The extracted content is modelled as JSON text at token level, parsed   *)
(* by json_loads as json.loads parses it; the store is the committed       *)
(* content of data.db; rows inserted by a connection that has not yet      *)
(* committed are kept apart in `pending`.                                  *)
(***************************************************************************)
EXTENDS Integers, Sequences, FiniteSets, TLC

\* ------------------------------------------------------------------ bounds
\* Largest number of elements in an extracted JSON array.
MaxBatch == 2
\* Number of times the program is started, one run after the other.
MaxRuns == 2
\* Extraction outcomes are enumerated only while the batch fits in a store of
\* this many rows.
MaxRows == 4

\* ------------------------------------------------------- program constants
list_websites == << "https://www.infoayudas.com/", "https://www.fiducoldex.com.co/" >>

\* The nine data columns, in the order of the INSERT statement.
Columns ==
  << "nombre_de_la_convocatoria", "fecha_de_apertura", "fecha_de_cierre",
     "idioma", "pais_que_convoca", "enlace_de_la_convocatoria",
     "tipo_de_proyecto_o_propuesta_que_se_puede_presentar",
     "quienes_pueden_participar", "beneficios" >>

\* The shape CREATE TABLE gives the table: the identity column and the nine.
Schema == << "id" >> \o Columns

\* ------------------------------------------------------------- JSON tokens
Tok(k, v) == [k |-> k, v |-> v]
LB == Tok("[", "")
RB == Tok("]", "")
LC == Tok("{", "")
RC == Tok("}", "")
COMMA == Tok(",", "")
COLON == Tok(":", "")
TStr(s) == Tok("str", s)
TNum(s) == Tok("num", s)
TNull == Tok("null", "")

\* ------------------------------------------- Python values after json.loads
JNone == [t |-> "null", v |-> << >>]
JStr(s) == [t |-> "str", v |-> s]
JNum(s) == [t |-> "num", v |-> s]
JArr(xs) == [t |-> "arr", v |-> xs]
JObj(ps) == [t |-> "obj", v |-> ps]

ParseOk(val, rest) == [ok |-> TRUE, val |-> val, rest |-> rest]
ParseFail == [ok |-> FALSE, val |-> JNone, rest |-> << >>]

HasKey(ps, key) == \E n \in 1..Len(ps) : ps[n].key = key

\* dict[key] = val: a repeated key keeps its first position and takes the
\* last value.
DictSet(ps, key, val) ==
  IF HasKey(ps, key)
  THEN [n \in 1..Len(ps) |-> IF ps[n].key = key THEN [key |-> key, val |-> val] ELSE ps[n]]
  ELSE Append(ps, [key |-> key, val |-> val])

RECURSIVE ParseValue(_), ParseElements(_, _), ParseMembers(_, _)

ParseValue(ts) ==
  IF ts = << >> THEN ParseFail
  ELSE LET h == Head(ts)
           r == Tail(ts)
       IN CASE h.k = "null" -> ParseOk(JNone, r)
            [] h.k = "str" -> ParseOk(JStr(h.v), r)
            [] h.k = "num" -> ParseOk(JNum(h.v), r)
            [] h.k = "[" ->
                 IF r # << >> /\ Head(r).k = "]"
                 THEN ParseOk(JArr(<< >>), Tail(r))
                 ELSE ParseElements(r, << >>)
            [] h.k = "{" ->
                 IF r # << >> /\ Head(r).k = "}"
                 THEN ParseOk(JObj(<< >>), Tail(r))
                 ELSE ParseMembers(r, << >>)
            [] OTHER -> ParseFail

ParseElements(ts, acc) ==
  LET p == ParseValue(ts)
  IN IF ~p.ok \/ p.rest = << >> THEN ParseFail
     ELSE LET sep == Head(p.rest)
              xs == Append(acc, p.val)
          IN CASE sep.k = "," -> ParseElements(Tail(p.rest), xs)
               [] sep.k = "]" -> ParseOk(JArr(xs), Tail(p.rest))
               [] OTHER -> ParseFail

ParseMembers(ts, acc) ==
  IF Len(ts) < 3 \/ ts[1].k # "str" \/ ts[2].k # ":" THEN ParseFail
  ELSE LET p == ParseValue(SubSeq(ts, 3, Len(ts)))
       IN IF ~p.ok \/ p.rest = << >> THEN ParseFail
          ELSE LET sep == Head(p.rest)
                   ps == DictSet(acc, ts[1].v, p.val)
               IN CASE sep.k = "," -> ParseMembers(Tail(p.rest), ps)
                    [] sep.k = "}" -> ParseOk(JObj(ps), Tail(p.rest))
                    [] OTHER -> ParseFail

\* json.loads: the whole text must be one JSON value.
json_loads(ts) ==
  LET p == ParseValue(ts)
  IN IF p.ok /\ p.rest = << >> THEN [ok |-> TRUE, val |-> p.val]
     ELSE [ok |-> FALSE, val |-> JNone]

\* ------------------------------------------------------------ SQLite store
SqlNull == [t |-> "NULL", v |-> ""]
SqlText(s) == [t |-> "TEXT", v |-> s]

\* The Python types the sqlite3 module binds to a "?" placeholder: None, str
\* and numbers; a list or a dict raises ProgrammingError.
Bindable(x) == x.t \in {"null", "str", "num"}

\* The value a TEXT column holds for a bound parameter: None is NULL, a str
\* is itself, and a number is converted to its text by the column's TEXT
\* affinity (numbers are carried as their canonical decimal text).
Bind(x) ==
  CASE x.t = "null" -> SqlNull
    [] x.t = "str" -> SqlText(x.v)
    [] x.t = "num" -> SqlText(x.v)

\* data.get(key, ""): a missing key gives the empty string.
dict_getOrEmpty(data, key) ==
  IF HasKey(data.v, key)
  THEN data.v[CHOOSE n \in 1..Len(data.v) : data.v[n].key = key].val
  ELSE JStr("")

\* data.get(key): the value under key, None when the key is missing.
dict_get(data, key) ==
  IF HasKey(data.v, key)
  THEN data.v[CHOOSE n \in 1..Len(data.v) : data.v[n].key = key].val
  ELSE JNone

\* for data in data_list: a list yields its elements, a dict its keys, a str
\* its characters; a number or None is not iterable (TypeError).
Iter(x) ==
  CASE x.t = "arr" -> [ok |-> TRUE, items |-> x.v]
    [] x.t = "obj" -> [ok |-> TRUE, items |-> [n \in 1..Len(x.v) |-> JStr(x.v[n].key)]]
    [] x.t = "str" -> [ok |-> TRUE, items |-> [n \in 1..Len(x.v) |-> JStr(SubSeq(x.v, n, n))]]
    [] OTHER -> [ok |-> FALSE, items |-> << >>]

Max(a, b) == IF a >= b THEN a ELSE b

RECURSIVE MaxRowid(_)
MaxRowid(rows) ==
  IF rows = << >> THEN 0 ELSE Max(rows[Len(rows)].id, MaxRowid(SubSeq(rows, 1, Len(rows) - 1)))

\* The largest rowid itself, not one more.
NextIdNoIncrement(d) == Max(d.seq, MaxRowid(d.rows))

\* INTEGER PRIMARY KEY AUTOINCREMENT: one more than the largest rowid the
\* table has ever held (sqlite_sequence) or holds now.
NextId(d) == Max(d.seq, MaxRowid(d.rows)) + 1

\* INSERT OR IGNORE under a uniqueness constraint over the nine columns: a
\* row whose values are already stored is not inserted again.
InsertUnique(d, params) ==
  LET cols == [c \in 1..Len(Columns) |-> Bind(params[c])]
  IN IF \E n \in 1..Len(d.rows) : d.rows[n].cols = cols
     THEN d
     ELSE [d EXCEPT !.rows = Append(@, [id |-> NextId(d), cols |-> cols]), !.seq = NextId(d)]

\* One INSERT statement through the cursor: the row is appended in the
\* connection's open transaction and sqlite_sequence follows.
Insert(d, params) ==
  LET id == NextId(d)
      row == [id |-> id, cols |-> [c \in 1..Len(Columns) |-> Bind(params[c])]]
  IN [d EXCEPT !.rows = Append(@, row), !.seq = id]

\* The body of the for loop of save_to_database from item n on; d is the
\* database as the connection sees it, uncommitted rows included.
RECURSIVE InsertLoop(_, _, _)
InsertLoop(items, n, d) ==
  IF n > Len(items) THEN [error |-> "none", at |-> 0, conn |-> d]
  ELSE LET data == items[n]
       IN IF data.t # "obj" THEN [error |-> "AttributeError", at |-> n, conn |-> d]
          ELSE LET params == [c \in 1..Len(Columns) |-> dict_get(data, Columns[c])]
               IN IF d.table = << >>
                  THEN [error |-> "OperationalError", at |-> n, conn |-> d]
                  ELSE IF \E c \in 1..Len(Columns) : ~Bindable(params[c])
                  THEN [error |-> "ProgrammingError", at |-> n, conn |-> d]
                  ELSE InsertLoop(items, n + 1, Insert(d, params))

\* A CREATE TABLE without the IF NOT EXISTS clause: the second call raises.
setup_databaseNoGuard(d) ==
  IF d.table = << >>
  THEN [error |-> "none", db |-> [d EXCEPT !.table = Schema]]
  ELSE [error |-> "OperationalError", db |-> d]

\* DROP TABLE before CREATE TABLE: every call starts from an empty table.
setup_databaseRecreate(d) ==
  [error |-> "none", db |-> [table |-> Schema, rows |-> << >>, seq |-> 0]]

\* CREATE TABLE IF NOT EXISTS convocatorias (...); commit; close.
setup_database(d) ==
  [error |-> "none", db |-> IF d.table = << >> THEN [d EXCEPT !.table = Schema] ELSE d]

\* A connection in autocommit mode: every INSERT is durable at once, so an
\* exception leaves the rows inserted before it in the store.
save_to_databaseAutocommit(d, data_list) ==
  LET it == Iter(data_list)
  IN IF ~it.ok
     THEN [error |-> "TypeError", at |-> 0, db |-> d, pending |-> << >>]
     ELSE LET r == InsertLoop(it.items, 1, d)
          IN [error |-> r.error, at |-> r.at, db |-> r.conn, pending |-> << >>]

\* save_to_database(data_list) on the committed database d. The INSERTs run
\* in the transaction the sqlite3 module opens before the first of them; the
\* single commit after the loop makes them durable. An exception leaves the
\* function before the commit: the committed database is unchanged and the
\* inserted rows stay pending in the abandoned connection.
save_to_database(d, data_list) ==
  LET it == Iter(data_list)
  IN IF ~it.ok
     THEN [error |-> "TypeError", at |-> 0, db |-> d, pending |-> << >>]
     ELSE LET r == InsertLoop(it.items, 1, d)
          IN IF r.error = "none"
             THEN [error |-> "none", at |-> 0, db |-> r.conn, pending |-> << >>]
             ELSE [error |-> r.error, at |-> r.at, db |-> d,
                   pending |-> SubSeq(r.conn.rows, Len(d.rows) + 1, Len(r.conn.rows))]

\* ------------------------------------------- extraction collaborator inputs
RECURSIVE JoinComma(_)
JoinComma(parts) ==
  IF parts = << >> THEN << >>
  ELSE IF Len(parts) = 1 THEN parts[1]
  ELSE parts[1] \o << COMMA >> \o JoinComma(Tail(parts))

Member(key, vt) == << TStr(key), COLON >> \o vt
ObjText(members) == << LC >> \o JoinComma(members) \o << RC >>
ArrText(elems) == << LB >> \o JoinComma(elems) \o << RB >>

\* Candidate records the collaborator may put in its array.
RecordA ==
  ObjText(<< Member("nombre_de_la_convocatoria", << TStr("Beca X") >>),
             Member("fecha_de_apertura", << TStr("2025-05-01") >>) >>)
RecordB ==
  ObjText(<< Member("fecha_de_cierre", << TStr("pronto") >>),
             Member("fuente", ArrText(<< << TStr("web") >> >>)),
             Member("idioma", << TNull >>),
             Member("nombre_de_la_convocatoria", << TStr("Beca Y") >>),
             Member("fecha_de_cierre", << TStr("2025-06-30") >>) >>)
RecordNumber ==
  ObjText(<< Member("nombre_de_la_convocatoria", << TStr("Beca X") >>),
             Member("beneficios", << TNum("5000") >>) >>)
RecordList ==
  ObjText(<< Member("nombre_de_la_convocatoria", << TStr("Beca X") >>),
             Member("idioma", ArrText(<< << TStr("es") >>, << TStr("en") >> >>)) >>)
BareString == << TStr("Beca X") >>

Elements == {RecordA, RecordB, RecordNumber, RecordList, BareString}

ArrayPayloads ==
  UNION { { ArrText(s) : s \in [1..n -> Elements] } : n \in 0..MaxBatch }

\* Extracted content that is no JSON array: objects, scalars, text that is
\* not JSON, and an array cut short.
OtherPayloads ==
  { ObjText(<< >>),
    ObjText(<< Member("a", << TNum("1") >>) >>),
    << TNum("5") >>,
    << TNull >>,
    << TStr("") >>,
    << TStr("no") >>,
    << Tok("junk", "<html>") >>,
    << LB >> \o RecordA }

Payloads == ArrayPayloads \cup OtherPayloads

Success(text) == [success |-> TRUE, extracted_content |-> text, error_message |-> ""]
Failure == [success |-> FALSE, extracted_content |-> << >>, error_message |-> "crawl failed"]
NoResult == [success |-> FALSE, extracted_content |-> << >>, error_message |-> ""]

Outcomes == {Failure} \cup { Success(p) : p \in Payloads }

\* The number of rows a payload asks to store (0 when it is no array).
BatchSize(o) ==
  LET p == json_loads(o.extracted_content)
  IN IF o.success /\ p.ok /\ p.val.t = "arr" THEN Len(p.val.v) ELSE 0

\* -------------------------------------------------------------------- state
VARIABLES
  pc,       \* where main is: start, loop, result, done, crashed, exited
  run,      \* which start of the program this is
  i,        \* index in list_websites of the current website
  result,   \* what crawler.arun returned last
  db,       \* committed content of data.db: table shape, rows, sqlite_sequence
  pending,  \* rows inserted by a connection that never committed
  exc,      \* the exception that ended the run, if any
  events,   \* this run's calls: arun per website, save per stored batch
  mark,     \* number of committed rows when this run started
  script    \* what the collaborator answers per website, when it is fixed

vars == << pc, run, i, result, db, pending, exc, events, mark, script >>

NoExc == [type |-> "none", at |-> 0]
N == Len(list_websites)
AfterUrl(n) == IF n + 1 > N THEN "done" ELSE "loop"

InitCommon ==
  /\ pc = "start"
  /\ run = 1
  /\ i = 1
  /\ result = NoResult
  /\ db = [table |-> << >>, rows |-> << >>, seq |-> 0]
  /\ pending = << >>
  /\ exc = NoExc
  /\ events = << >>
  /\ mark = 0

Init == InitCommon /\ script = << >>

\* main, line 82: setup_database().
SetupDatabase ==
  /\ pc = "start"
  /\ LET s == setup_database(db)
     IN /\ db' = s.db
        /\ pc' = IF s.error = "none" THEN AfterUrl(0) ELSE "crashed"
        /\ exc' = [type |-> s.error, at |-> 0]
  /\ UNCHANGED << run, i, result, pending, events, mark, script >>

\* main, lines 105-107: the next website is crawled and arun returns o.
Arun(o) ==
  /\ pc = "loop"
  /\ i <= N
  /\ Len(db.rows) + BatchSize(o) <= MaxRows
  /\ result' = o
  /\ events' = Append(events, [op |-> "arun", url |-> list_websites[i], ok |-> o.success])
  /\ pc' = "result"
  /\ UNCHANGED << run, i, db, pending, exc, mark, script >>

\* main, lines 109-113: result.success; json.loads, then save_to_database.
\* An exception of either is caught nowhere and ends the run.
ExtractionSuccess ==
  /\ pc = "result"
  /\ result.success
  /\ LET parsed == json_loads(result.extracted_content)
     IN IF ~parsed.ok
        THEN /\ pc' = "crashed"
             /\ exc' = [type |-> "JSONDecodeError", at |-> 0]
             /\ UNCHANGED << db, pending, events, i >>
        ELSE LET s == save_to_database(db, parsed.val)
             IN IF s.error # "none"
                THEN /\ pc' = "crashed"
                     /\ exc' = [type |-> s.error, at |-> s.at]
                     /\ pending' = s.pending
                     /\ UNCHANGED << db, events, i >>
                ELSE /\ db' = s.db
                     /\ events' = Append(events, [op |-> "save", url |-> list_websites[i], ok |-> TRUE])
                     /\ i' = i + 1
                     /\ pc' = AfterUrl(i)
                     /\ UNCHANGED << pending, exc >>
  /\ UNCHANGED << run, result, mark, script >>

\* A retry of the failed website: the loop index is not advanced.
ExtractionFailedRetry ==
  /\ pc = "result"
  /\ ~result.success
  /\ pc' = "loop"
  /\ UNCHANGED << run, i, result, db, pending, exc, events, mark, script >>

\* main, lines 114-115: the failure is printed and the loop goes on.
ExtractionFailed ==
  /\ pc = "result"
  /\ ~result.success
  /\ i' = i + 1
  /\ pc' = AfterUrl(i)
  /\ UNCHANGED << run, result, db, pending, exc, events, mark, script >>

\* The unhandled exception leaves asyncio.run and the process exits; the
\* abandoned connection is closed without a commit and its rows are gone.
ProcessExit ==
  /\ pc = "crashed"
  /\ pending' = << >>
  /\ pc' = "exited"
  /\ UNCHANGED << run, i, result, db, exc, events, mark, script >>

\* The program is started again on the same data.db.
Restart ==
  /\ pc \in {"done", "exited"}
  /\ run < MaxRuns
  /\ run' = run + 1
  /\ pc' = "start"
  /\ i' = 1
  /\ result' = NoResult
  /\ exc' = NoExc
  /\ events' = << >>
  /\ mark' = Len(db.rows)
  /\ UNCHANGED << db, pending, script >>

ArunAny == \E o \in Outcomes : Arun(o)

Next ==
  \/ SetupDatabase
  \/ ArunAny
  \/ ExtractionSuccess
  \/ ExtractionFailed
  \/ ProcessExit
  \/ Restart

Spec == Init /\ [][Next]_vars

\* The collaborator gives the same answer for a website in every run.
InitRerun == InitCommon /\ script \in [1..N -> Outcomes]

ArunScripted == i <= N /\ Arun(script[i])

NextRerun ==
  \/ SetupDatabase
  \/ ArunScripted
  \/ ExtractionSuccess
  \/ ExtractionFailed
  \/ ProcessExit
  \/ Restart

SpecRerun == InitRerun /\ [][NextRerun]_vars

\* ------------------------------------------------ vocabulary of the claims
Parsed == json_loads(result.extracted_content)

\* The handler of a successful extraction is about to run.
HandlingSuccess == pc = "result" /\ result.success

\* The extracted content parses to a JSON array.
IsArray == Parsed.ok /\ Parsed.val.t = "arr"

\* The extracted content parses to a JSON array whose elements are all objects.
IsArrayOfMappings ==
  IsArray /\ \A n \in 1..Len(Parsed.val.v) : Parsed.val.v[n].t = "obj"

\* Every value an element carries under one of the nine known keys is a
\* string or null.
TextOrNullValues ==
  \A n \in 1..Len(Parsed.val.v) :
    \A m \in 1..Len(Parsed.val.v[n].v) :
      (\E c \in 1..Len(Columns) : Columns[c] = Parsed.val.v[n].v[m].key)
        => Parsed.val.v[n].v[m].val.t \in {"null", "str"}

\* A stored column reads back as the Python value x: NULL as None, text as
\* the same str; no text equals a number.
ReadsBackAs(col, x) ==
  \/ x.t = "null" /\ col = SqlNull
  \/ x.t = "str" /\ col = SqlText(x.v)

\* The stored column is the element's value under key, NULL when the element
\* has no such key.
ColumnMatches(col, elem, key) ==
  IF \E m \in 1..Len(elem.v) : elem.v[m].key = key
  THEN \E m \in 1..Len(elem.v) : elem.v[m].key = key /\ ReadsBackAs(col, elem.v[m].val)
  ELSE col = SqlNull

\* rows2 is rows1 followed by one row per element of elems, in order.
AppendedInOrder(rows1, rows2, elems) ==
  /\ Len(rows2) = Len(rows1) + Len(elems)
  /\ \A n \in 1..Len(rows1) : rows2[n] = rows1[n]
  /\ \A n \in 1..Len(elems) :
       \A c \in 1..Len(Columns) :
         ColumnMatches(rows2[Len(rows1) + n].cols[c], elems[n], Columns[c])

IsPrefix(a, b) == Len(a) <= Len(b) /\ \A n \in 1..Len(a) : b[n] = a[n]

Aruns == SelectSeq(events, LAMBDA e : e.op = "arun")
LastEvent == events[Len(events)]

\* ------------------------------------------------------------------- claims

\* C1: when the extraction call for a website returns failure, handling it
\* adds no row to the store, leaves this run's calls as they are, and moves
\* the loop to the next website (or ends the loop after the last one); no
\* website is ever crawled twice in a run.
C1_FailureSkipsUrl ==
  [][ /\ (pc = "result" /\ ~result.success) =>
          /\ db' = db
          /\ pending' = pending
          /\ events' = events
          /\ i' = i + 1
          /\ pc' = (IF i < N THEN "loop" ELSE "done")
      /\ \A a, b \in 1..Len(Aruns) : a # b => Aruns[a].url # Aruns[b].url
    ]_vars

\* The scenario of the specification: the first website fails, the second
\* yields one record, and the run ends with exactly that one row stored.
C1_Witness ==
  /\ pc = "done"
  /\ Len(events) = 3
  /\ events[1] = [op |-> "arun", url |-> list_websites[1], ok |-> FALSE]
  /\ events[2] = [op |-> "arun", url |-> list_websites[2], ok |-> TRUE]
  /\ events[3].op = "save"
  /\ Len(db.rows) = mark + 1
  /\ db.rows[Len(db.rows)].cols[1] = SqlText("Beca X")

\* C2: when a successful extraction carries a payload that is not parseable
\* JSON or is not a JSON array, handling it does not end the run: the loop
\* proceeds to the next website.
C2_MalformedProceeds ==
  [][ (HandlingSuccess /\ ~IsArray) => (pc' # "crashed" /\ i' = i + 1) ]_vars

\* C3: when a successful extraction carries a payload that is not a JSON
\* array of mappings, handling it ends in an error and commits no row.
C3_MalformedEndsInError ==
  [][ (HandlingSuccess /\ ~IsArrayOfMappings) =>
        (pc' = "crashed" /\ db'.rows = db.rows) ]_vars

\* C4 as stated: for every batch that is a sequence of mappings,
\* save_to_database completes without error and appends one row per element,
\* in order, each column equal to the element's value under the column's key
\* or null when the key is missing.
C4_EveryMappingBatchStored ==
  [][ (HandlingSuccess /\ IsArrayOfMappings) =>
        (pc' # "crashed" /\ AppendedInOrder(db.rows, db'.rows, Parsed.val.v)) ]_vars

\* C4 as amended: the same, for batches of mappings whose values under the
\* nine known keys are strings or null.
C4_TextBatchStored ==
  [][ (HandlingSuccess /\ IsArrayOfMappings /\ TextOrNullValues) =>
        (pc' # "crashed" /\ AppendedInOrder(db.rows, db'.rows, Parsed.val.v)) ]_vars

\* A batch of two different text-only mappings, one with an unknown key and a
\* missing known key, has just been stored.
C4_Witness ==
  /\ pc \in {"loop", "done"}
  /\ events # << >>
  /\ LastEvent.op = "save"
  /\ IsArrayOfMappings
  /\ TextOrNullValues
  /\ Len(Parsed.val.v) = 2
  /\ HasKey(Parsed.val.v[2].v, "fuente")
  /\ db.rows[Len(db.rows) - 1].cols # db.rows[Len(db.rows)].cols
  /\ db.rows[Len(db.rows)].cols[2] = SqlNull

\* C5 as stated: a failure of save_to_database at an element after the first
\* leaves a non-empty strict prefix of the batch committed in the store.
C5_PartialCommit ==
  [][ (pc = "result" /\ pc' = "crashed" /\ exc'.at > 1) =>
        (Len(db'.rows) > Len(db.rows) /\ Len(db'.rows) < Len(db.rows) + Len(Parsed.val.v)) ]_vars

\* C5 as amended: a failure of save_to_database commits nothing: the store is
\* as it was before the call, the rows inserted before the failing element
\* are only pending in the abandoned connection, and they are gone when the
\* process exits.
C5_NoPartialCommit ==
  [][ /\ (pc = "result" /\ pc' = "crashed") =>
          /\ db' = db
          /\ exc'.at > 0 => Len(pending') = exc'.at - 1
      /\ pc = "crashed" => (db' = db /\ pending' = << >>)
    ]_vars

\* save_to_database failed at an element after the first: rows were inserted
\* and none of them is in the store.
C5_Witness ==
  /\ pc = "crashed"
  /\ exc.at > 1
  /\ pending # << >>
  /\ Len(db.rows) = mark

\* C6: the committed rows before every step are a prefix of the committed
\* rows after it, and the table is never dropped or reshaped.
C6_AppendOnly ==
  [][ IsPrefix(db.rows, db'.rows) /\ (db.table # << >> => db'.table = db.table) ]_vars

\* A second run has called setup_database on a store that held rows and has
\* appended more.
C6_Witness ==
  /\ run = 2
  /\ pc = "done"
  /\ mark > 0
  /\ Len(db.rows) > mark

\* C7: the ids of the committed rows are strictly increasing in insertion
\* order, hence pairwise distinct.
C7_FreshIds ==
  \A a, b \in 1..Len(db.rows) : a < b => db.rows[a].id < db.rows[b].id

\* Rows of several batches and two runs are in the store.
C7_Witness ==
  /\ run = 2
  /\ mark >= 2
  /\ Len(db.rows) >= mark + 2
  /\ Len(events) = 4

\* C8: setup_database raises no error, leaves an existing table and its rows
\* as they are, and a second call changes nothing the first did not.
C8_SetupIdempotent ==
  [][ /\ pc = "start" =>
          /\ pc' # "crashed"
          /\ db.table # << >> => db' = db
          /\ db'.table = Schema
      /\ setup_database(setup_database(db).db) = setup_database(db)
    ]_vars

\* setup_database has run on a store whose table existed and held rows.
C8_Witness ==
  /\ run = 2
  /\ pc = "loop"
  /\ i = 1
  /\ events = << >>
  /\ Len(db.rows) >= 2

\* C9: when the program has run twice and the collaborator gave the same
\* answers in both runs, the second run has stored every row of the first
\* run once more: same nine values, another id.
C9_RerunDuplicates ==
  (run = 2 /\ pc \in {"done", "exited"}) =>
    /\ Len(db.rows) = 2 * mark
    /\ \A n \in 1..mark :
         /\ db.rows[mark + n].cols = db.rows[n].cols
         /\ db.rows[mark + n].id # db.rows[n].id

\* Two runs over two successful payloads have ended and every record is
\* stored twice.
C9_Witness ==
  /\ run = 2
  /\ pc = "done"
  /\ mark = 2
  /\ Len(db.rows) = 4
  /\ \A n \in 1..N : script[n].success /\ BatchSize(script[n]) = 1

\* C10: when a run has ended, the collaborator has been called exactly once
\* for every website, in list order, and every batch was saved before the
\* next website was crawled.
C10_EveryUrlCrawledOnce ==
  pc \in {"done", "crashed", "exited"} =>
    /\ Len(Aruns) = N
    /\ \A n \in 1..N : Aruns[n].url = list_websites[n]
    /\ \A a, b \in 1..Len(events) :
         (events[a].op = "save" /\ events[b].op = "arun" /\ events[b].url # events[a].url
            /\ \E m, n \in 1..N : m < n /\ list_websites[m] = events[a].url
                                  /\ list_websites[n] = events[b].url)
           => a < b

====
